---- MODULE Spec2Model ----
(***************************************************************************)
(* The blog application app_blog: the URL configuration (urls.py), the     *)
(* admin configuration (admin.py) and the Entity Store and views they      *)
(* drive.  Text (paths, slugs) is a sequence of one-character strings.     *)
(***************************************************************************)
EXTENDS Integers, Sequences, FiniteSets, TLC

VARIABLES categories, articles, images, nextCategory, nextArticle, nextImage,
          request, last

vars ==
    <<categories, articles, images, nextCategory, nextArticle, nextImage,
      request, last>>

store == <<categories, articles, images, nextCategory, nextArticle, nextImage>>

(***************************************************************************)
(* Bounds of the model.                                                    *)
(***************************************************************************)
MaxCategoryId == 2
MaxArticleId == 2
MaxImageId == 2
MaxSegs == 6

(***************************************************************************)
(* Characters and decimal conversion: the <int:...> and <slug:...> path    *)
(* converters of urls.py.                                                   *)
(***************************************************************************)
Digits == <<"0", "1", "2", "3", "4", "5", "6", "7", "8", "9">>

DigitChars == {Digits[i] : i \in 1..10}

LetterChars ==
    {"a", "b", "c", "d", "e", "f", "g", "h", "i", "j", "k", "l", "m",
     "n", "o", "p", "q", "r", "s", "t", "u", "v", "w", "x", "y", "z",
     "A", "B", "C", "D", "E", "F", "G", "H", "I", "J", "K", "L", "M",
     "N", "O", "P", "Q", "R", "S", "T", "U", "V", "W", "X", "Y", "Z"}

\* a converter whose expression also admits a sign
IntConverterChars_signed == DigitChars \cup {"-"}

\* IntConverter.regex = "[0-9]+"
IntConverterChars == DigitChars

\* SlugConverter.regex = "[-a-zA-Z0-9_]+"
SlugConverterChars == LetterChars \cup DigitChars \cup {"-", "_"}

ConverterChars(conv) ==
    IF conv = "int" THEN IntConverterChars ELSE SlugConverterChars

DigitValue(c) == (CHOOSE i \in 1..10 : Digits[i] = c) - 1

\* the texts int() accepts: digits, with an optional sign in front
IsIntText(s) ==
    /\ Len(s) >= 1
    /\ \A k \in 2..Len(s) : s[k] \in DigitChars
    /\ \/ s[1] \in DigitChars
       \/ s[1] \in {"-", "+"} /\ Len(s) >= 2

RECURSIVE DecimalValue(_)
DecimalValue(s) ==
    IF Len(s) = 0 THEN 0
    ELSE 10 * DecimalValue(SubSeq(s, 1, Len(s) - 1)) + DigitValue(s[Len(s)])

\* int(value) of a text IsIntText holds of; leading zeros do not count
int(s) ==
    IF s[1] = "-" THEN 0 - DecimalValue(Tail(s))
    ELSE IF s[1] = "+" THEN DecimalValue(Tail(s))
    ELSE DecimalValue(s)

\* IntConverter.to_url: str(value), no padding, "-" in front of a negative
RECURSIVE str(_)
str(n) ==
    IF n < 0 THEN <<"-">> \o str(0 - n)
    ELSE IF n < 10 THEN <<Digits[n + 1]>>
    ELSE str(n \div 10) \o <<Digits[(n % 10) + 1]>>

\* to_python raises ValueError on a text it cannot convert
ValueError(conv, text) == conv = "int" /\ ~IsIntText(text)

to_python(conv, text) == IF conv = "int" THEN int(text) ELSE text

\* to_url writing one-digit numbers with two digits
to_url_padded(conv, value) ==
    IF conv = "int"
    THEN IF 0 <= value /\ value < 10 THEN <<"0">> \o str(value) ELSE str(value)
    ELSE value

to_url(conv, value) == IF conv = "int" THEN str(value) ELSE value

(***************************************************************************)
(* urlpatterns (urls.py).  A route is a sequence of parts: literal text or *)
(* a converter with the keyword it binds.                                  *)
(***************************************************************************)
Lit(text) == [kind |-> "lit", text |-> text, conv |-> "", name |-> ""]

Conv(conv, name) == [kind |-> "conv", text |-> <<>>, conv |-> conv, name |-> name]

txt_articles == <<"a", "r", "t", "i", "c", "l", "e", "s">>

txt_category == <<"c", "a", "t", "e", "g", "o", "r", "y">>

route_home == <<>>

\* path(r'articles/', ...)
route_articles_list_slash == <<Lit(txt_articles \o <<"/">>)>>

route_articles_list == <<Lit(txt_articles)>>

route_articles_category_list ==
    <<Lit(txt_articles \o <<"/">> \o txt_category \o <<"/">>),
      Conv("slug", "slug"), Lit(<<"/">>)>>

\* path(r'articles/<slug:year>/<int:month>/<int:day>/<slug:slug>/', ...)
route_news_detail_slug_year ==
    <<Lit(txt_articles \o <<"/">>), Conv("slug", "year"), Lit(<<"/">>),
      Conv("int", "month"), Lit(<<"/">>), Conv("int", "day"), Lit(<<"/">>),
      Conv("slug", "slug"), Lit(<<"/">>)>>

route_news_detail ==
    <<Lit(txt_articles \o <<"/">>), Conv("int", "year"), Lit(<<"/">>),
      Conv("int", "month"), Lit(<<"/">>), Conv("int", "day"), Lit(<<"/">>),
      Conv("slug", "slug"), Lit(<<"/">>)>>

\* the category route wired to ArticleList
urlpatterns_category_as_list ==
    << [route |-> route_home, view |-> "HomePageView", name |-> "home"],
       [route |-> route_articles_list, view |-> "ArticleList",
        name |-> "articles-list"],
       [route |-> route_articles_category_list, view |-> "ArticleList",
        name |-> "articles-category-list"],
       [route |-> route_news_detail, view |-> "ArticleDetail",
        name |-> "news-detail"] >>

\* the list route wired to HomePageView
urlpatterns_list_as_home ==
    << [route |-> route_home, view |-> "HomePageView", name |-> "home"],
       [route |-> route_articles_list, view |-> "HomePageView",
        name |-> "articles-list"],
       [route |-> route_articles_category_list, view |-> "ArticleCategoryList",
        name |-> "articles-category-list"],
       [route |-> route_news_detail, view |-> "ArticleDetail",
        name |-> "news-detail"] >>

urlpatterns ==
    << [route |-> route_home, view |-> "HomePageView", name |-> "home"],
       [route |-> route_articles_list, view |-> "ArticleList",
        name |-> "articles-list"],
       [route |-> route_articles_category_list, view |-> "ArticleCategoryList",
        name |-> "articles-category-list"],
       [route |-> route_news_detail, view |-> "ArticleDetail",
        name |-> "news-detail"] >>

RouteNames == {urlpatterns[i].name : i \in 1..Len(urlpatterns)}

EmptyKwargs == [n \in {} |-> 0]

NoMatch == [ok |-> FALSE, kwargs |-> EmptyKwargs]

NoGroups == [ok |-> FALSE, groups |-> EmptyKwargs]

HasPrefixAt(s, j, text) ==
    /\ j + Len(text) - 1 <= Len(s)
    /\ \A k \in 1..Len(text) : s[j + k - 1] = text[k]

\* length of the longest run of characters of class cs in s from position j
RECURSIVE RunLength(_, _, _)
RunLength(s, j, cs) ==
    IF j <= Len(s) /\ s[j] \in cs THEN 1 + RunLength(s, j + 1, cs) ELSE 0

\* The regular expression a route compiles to, anchored at both ends
\* ("^" ... "\Z"), applied to s from position j with parts i.. left to match:
\* a literal matches itself; a converter matches k >= 1 characters of its
\* class, the longest run first, backing off while the rest fails to match.
\* The result holds the text each converter captured.
RECURSIVE MatchFrom(_, _, _, _), MatchConv(_, _, _, _, _)
MatchFrom(route, i, s, j) ==
    IF i > Len(route)
    THEN IF j = Len(s) + 1 THEN [ok |-> TRUE, groups |-> EmptyKwargs] ELSE NoGroups
    ELSE IF route[i].kind = "lit"
    THEN IF HasPrefixAt(s, j, route[i].text)
         THEN MatchFrom(route, i + 1, s, j + Len(route[i].text))
         ELSE NoGroups
    ELSE MatchConv(route, i, s, j, RunLength(s, j, ConverterChars(route[i].conv)))

MatchConv(route, i, s, j, k) ==
    IF k = 0 THEN NoGroups
    ELSE LET rest == MatchFrom(route, i + 1, s, j + k) IN
         IF rest.ok
         THEN [ok |-> TRUE,
               groups |-> (route[i].name :> SubSeq(s, j, j + k - 1)) @@ rest.groups]
         ELSE MatchConv(route, i, s, j, k - 1)

RegexMatch(route, s) == MatchFrom(route, 1, s, 1)

ConverterOf(route, name) ==
    route[CHOOSE p \in 1..Len(route) :
            route[p].kind = "conv" /\ route[p].name = name].conv

\* RoutePattern.match: the expression must match, and every captured text
\* must convert; a ValueError from a converter is no match.
RouteMatch(route, s) ==
    LET m == RegexMatch(route, s) IN
    IF ~m.ok THEN NoMatch
    ELSE IF \E n \in DOMAIN m.groups : ValueError(ConverterOf(route, n), m.groups[n])
    THEN NoMatch
    ELSE [ok |-> TRUE,
          kwargs |-> [n \in DOMAIN m.groups |->
                        to_python(ConverterOf(route, n), m.groups[n])]]

Resolver404 == [ok |-> FALSE, view |-> "", name |-> "", kwargs |-> EmptyKwargs]

\* resolve(path): the root resolver strips the leading "/", then the first
\* pattern of urlpatterns that matches the rest wins.
resolve(path) ==
    IF Len(path) = 0 \/ path[1] # "/" THEN Resolver404
    ELSE LET rest == SubSeq(path, 2, Len(path))
             hits == {i \in 1..Len(urlpatterns) : RouteMatch(urlpatterns[i].route, rest).ok}
         IN  IF hits = {} THEN Resolver404
             ELSE LET i == CHOOSE h \in hits : \A g \in hits : h <= g
                  IN  [ok |-> TRUE, view |-> urlpatterns[i].view,
                       name |-> urlpatterns[i].name,
                       kwargs |-> RouteMatch(urlpatterns[i].route, rest).kwargs]

RouteParams(route) ==
    {route[i].name : i \in {p \in 1..Len(route) : route[p].kind = "conv"}}

RECURSIVE Substitute(_, _, _)
Substitute(route, i, kwargs) ==
    IF i > Len(route) THEN <<>>
    ELSE (IF route[i].kind = "lit" THEN route[i].text
          ELSE to_url(route[i].conv, kwargs[route[i].name]))
         \o Substitute(route, i + 1, kwargs)

NoReverseMatch == <<"NoReverseMatch">>

\* reverse(name, kwargs): the pattern of that name whose parameters are
\* exactly the keywords given, with each value written by its converter; the
\* candidate is returned only if the pattern's own expression matches it.
reverse(name, kwargs) ==
    LET cands == {i \in 1..Len(urlpatterns) :
                    /\ urlpatterns[i].name = name
                    /\ RouteParams(urlpatterns[i].route) = DOMAIN kwargs}
    IN  IF cands = {} THEN NoReverseMatch
        ELSE LET i == CHOOSE c \in cands : TRUE
                 text == Substitute(urlpatterns[i].route, 1, kwargs)
             IN  IF RegexMatch(urlpatterns[i].route, text).ok
                 THEN <<"/">> \o text
                 ELSE NoReverseMatch

(***************************************************************************)
(* Entity Store.  categories, articles and images map a primary key to the *)
(* record stored under it; NULL is the absent category of an Article.      *)
(***************************************************************************)
NULL == 0

Slugs == {<<"n", "e", "w", "s">>, <<"a", "-", "1">>}

\* pub_date values: a date-time, of which the detail lookup reads the day
Dates ==
    {[year |-> 2024, month |-> 1, day |-> 15, hour |-> 9],
     [year |-> 2024, month |-> 1, day |-> 15, hour |-> 21],
     [year |-> 2020, month |-> 1, day |-> 1, hour |-> 0]}

Remove(f, pk) == [k \in (DOMAIN f) \ {pk} |-> f[k]]

NoOp ==
    [op |-> "none", path |-> <<>>, status |-> 0, view |-> "", template |-> "",
     items |-> {}, item |-> 0, pk |-> 0, error |-> "", kwargs |-> EmptyKwargs]

NoRequest == [kind |-> "none", segs |-> <<>>, name |-> "", kwargs |-> EmptyKwargs]

(***************************************************************************)
(* Views.                                                                  *)
(***************************************************************************)
Http404 == [NoOp EXCEPT !.op = "GET", !.status = 404]

HomePageView ==
    [NoOp EXCEPT !.op = "GET", !.status = 200, !.view = "HomePageView",
                 !.template = "index.html"]

\* every Article, exposed as items
ArticleList ==
    [NoOp EXCEPT !.op = "GET", !.status = 200, !.view = "ArticleList",
                 !.template = "articles_list.html",
                 !.items = DOMAIN articles]

\* filter(category__slug = slug): an empty result is still a 200
ArticleCategoryList(kwargs) ==
    [NoOp EXCEPT !.op = "GET", !.status = 200, !.view = "ArticleCategoryList",
                 !.template = "articles_list.html",
                 !.items = {a \in DOMAIN articles :
                              /\ articles[a].category # NULL
                              /\ categories[articles[a].category].slug = kwargs.slug}]

\* get_object_or_404: no row is Http404, one row is the object, several rows
\* raise MultipleObjectsReturned, which nothing catches (a server error)
get_object_or_404(rows) ==
    IF rows = {} THEN [found |-> FALSE, pk |-> 0, error |-> "Http404"]
    ELSE IF Cardinality(rows) = 1
    THEN [found |-> TRUE, pk |-> CHOOSE r \in rows : TRUE, error |-> ""]
    ELSE [found |-> FALSE, pk |-> 0, error |-> "MultipleObjectsReturned"]

\* the Article of that slug published on that calendar day, exposed as item
ArticleDetail(kwargs) ==
    LET rows == {a \in DOMAIN articles :
                   /\ articles[a].slug = kwargs.slug
                   /\ articles[a].pub_date.year = kwargs.year
                   /\ articles[a].pub_date.month = kwargs.month
                   /\ articles[a].pub_date.day = kwargs.day}
        got == get_object_or_404(rows)
    IN  IF got.found
        THEN [NoOp EXCEPT !.op = "GET", !.status = 200, !.view = "ArticleDetail",
                          !.template = "article_detail.html", !.item = got.pk]
        ELSE IF got.error = "Http404"
        THEN [Http404 EXCEPT !.view = "ArticleDetail"]
        ELSE [NoOp EXCEPT !.op = "GET", !.status = 500, !.view = "ArticleDetail",
                          !.error = got.error]

\* the view a resolved request is handed to
dispatch(match) ==
    IF ~match.ok THEN Http404
    ELSE IF match.view = "HomePageView" THEN HomePageView
    ELSE IF match.view = "ArticleList" THEN ArticleList
    ELSE IF match.view = "ArticleCategoryList" THEN ArticleCategoryList(match.kwargs)
    ELSE ArticleDetail(match.kwargs)

\* client.get(path)
get(path) ==
    LET match == resolve(path) IN
    [dispatch(match) EXCEPT !.path = path, !.kwargs = match.kwargs]

(***************************************************************************)
(* Admin operations on the Entity Store (admin.py).  Primary keys are      *)
(* handed out in increasing order and never reused.                        *)
(***************************************************************************)
SlugInUse(slug, except) ==
    \E c \in (DOMAIN categories) \ {except} : categories[c].slug = slug

\* CategoryAdmin add form: Category.slug is unique
CreateCategory(slug) ==
    /\ nextCategory <= MaxCategoryId
    /\ ~SlugInUse(slug, 0)
    /\ categories' = (nextCategory :> [slug |-> slug]) @@ categories
    /\ nextCategory' = nextCategory + 1
    /\ last' = NoOp
    /\ UNCHANGED <<articles, images, nextArticle, nextImage, request>>

\* CategoryAdmin change form
EditCategory(pk, slug) ==
    /\ pk \in DOMAIN categories
    /\ ~SlugInUse(slug, pk)
    /\ categories' = [categories EXCEPT ![pk].slug = slug]
    /\ last' = NoOp
    /\ UNCHANGED <<articles, images, nextCategory, nextArticle, nextImage, request>>

ArticlesOf(cat) == {a \in DOMAIN articles : articles[a].category = cat}

ImagesOf(as) == {i \in DOMAIN images : images[i].article \in as}

\* CategoryAdmin delete, the reference from Article cascading
DeleteCategoryCascade(pk) ==
    /\ pk \in DOMAIN categories
    /\ categories' = Remove(categories, pk)
    /\ articles' = [a \in (DOMAIN articles) \ ArticlesOf(pk) |-> articles[a]]
    /\ images' = [i \in (DOMAIN images) \ ImagesOf(ArticlesOf(pk)) |-> images[i]]
    /\ last' = NoOp
    /\ UNCHANGED <<nextCategory, nextArticle, nextImage, request>>

\* CategoryAdmin delete, the reference from Article set to NULL
DeleteCategorySetNull(pk) ==
    /\ pk \in DOMAIN categories
    /\ categories' = Remove(categories, pk)
    /\ articles' = [a \in DOMAIN articles |->
                      IF articles[a].category = pk
                      THEN [articles[a] EXCEPT !.category = NULL]
                      ELSE articles[a]]
    /\ last' = NoOp
    /\ UNCHANGED <<images, nextCategory, nextArticle, nextImage, request>>

\* ArticleAdmin add form: slug, pub_date and category (raw id) as entered;
\* (pub_date's day, slug) is not required to be unique
CreateArticle(slug, pub_date, category) ==
    /\ nextArticle <= MaxArticleId
    /\ category \in (DOMAIN categories) \cup {NULL}
    /\ articles' = (nextArticle :> [slug |-> slug, pub_date |-> pub_date,
                                    category |-> category]) @@ articles
    /\ nextArticle' = nextArticle + 1
    /\ last' = NoOp
    /\ UNCHANGED <<categories, images, nextCategory, nextImage, request>>

\* ArticleAdmin change form
EditArticle(pk, slug, pub_date, category) ==
    /\ pk \in DOMAIN articles
    /\ category \in (DOMAIN categories) \cup {NULL}
    /\ articles' = [articles EXCEPT ![pk] = [slug |-> slug, pub_date |-> pub_date,
                                             category |-> category]]
    /\ last' = NoOp
    /\ UNCHANGED <<categories, images, nextCategory, nextArticle, nextImage, request>>

\* ArticleAdmin delete: the Article and, by cascade, the images it owns
DeleteArticle(pk) ==
    /\ pk \in DOMAIN articles
    /\ articles' = Remove(articles, pk)
    /\ images' = [i \in (DOMAIN images) \ ImagesOf({pk}) |-> images[i]]
    /\ last' = [NoOp EXCEPT !.op = "delete_article", !.pk = pk]
    /\ UNCHANGED <<categories, nextCategory, nextArticle, nextImage, request>>

\* an inline row saved under a parent key that is not checked to exist
ArticleImageInline_any_parent(pk) ==
    /\ nextImage <= MaxImageId
    /\ images' = (nextImage :> [article |-> pk]) @@ images
    /\ nextImage' = nextImage + 1
    /\ last' = NoOp
    /\ UNCHANGED <<categories, articles, nextCategory, nextArticle, request>>

\* ArticleImageInline: a row added in the change form of Article pk
ArticleImageInline(pk) ==
    /\ nextImage <= MaxImageId
    /\ pk \in DOMAIN articles
    /\ images' = (nextImage :> [article |-> pk]) @@ images
    /\ nextImage' = nextImage + 1
    /\ last' = NoOp
    /\ UNCHANGED <<categories, articles, nextCategory, nextArticle, request>>

\* delete_file deleting every image of the Article that owns image pk
delete_file_of_owner(pk) ==
    LET obj == get_object_or_404(IF pk \in DOMAIN images THEN {pk} ELSE {}) IN
    /\ IF obj.found
       THEN /\ images' = [i \in {x \in DOMAIN images :
                                   images[x].article # images[obj.pk].article}
                            |-> images[i]]
            /\ last' = [NoOp EXCEPT !.op = "delete_file", !.pk = pk, !.status = 200]
       ELSE /\ images' = images
            /\ last' = [NoOp EXCEPT !.op = "delete_file", !.pk = pk, !.status = 404]
    /\ UNCHANGED <<categories, articles, nextCategory, nextArticle, nextImage, request>>

\* ArticleAdmin.delete_file(pk, request)
delete_file(pk) ==
    LET obj == get_object_or_404(IF pk \in DOMAIN images THEN {pk} ELSE {}) IN
    /\ IF obj.found
       THEN /\ images' = Remove(images, obj.pk)
            /\ last' = [NoOp EXCEPT !.op = "delete_file", !.pk = pk, !.status = 200]
       ELSE /\ images' = images
            /\ last' = [NoOp EXCEPT !.op = "delete_file", !.pk = pk, !.status = 404]
    /\ UNCHANGED <<categories, articles, nextCategory, nextArticle, nextImage, request>>

(***************************************************************************)
(* Requests.                                                               *)
(***************************************************************************)
RequestYears == {2020, 2024}

RequestMonths == {1}

RequestDays == {1, 15}

DetailKwargs ==
    [year : RequestYears, month : RequestMonths, day : RequestDays, slug : Slugs]

CategoryKwargs == [slug : Slugs]

\* response = self.client.get(reverse(name, kwargs=kwargs))
Get(name, kwargs) ==
    LET url == reverse(name, kwargs) IN
    /\ url # NoReverseMatch
    /\ last' = get(url)
    /\ UNCHANGED <<store, request>>

(***************************************************************************)
(* Requests put to the router alone: a path to resolve, made of segments   *)
(* joined by "/", or a route name and keywords to reverse.                 *)
(***************************************************************************)
Tokens ==
    {txt_articles, txt_category, <<"1", "5">>, <<"0", "1">>, <<"-", "1">>, <<>>}

RECURSIVE JoinSlash(_)
JoinSlash(segs) ==
    IF Len(segs) = 0 THEN <<>>
    ELSE IF Len(segs) = 1 THEN segs[1]
    ELSE segs[1] \o <<"/">> \o JoinSlash(Tail(segs))

Path(segs) == <<"/">> \o JoinSlash(segs)

SeqsUpTo(n) == UNION {[1..k -> Tokens] : k \in 0..n}

SegSeqs ==
    SeqsUpTo(2) \cup {<<txt_articles>> \o t : t \in SeqsUpTo(MaxSegs - 1)}

ReverseInts == {0 - 1, 0, 1, 15, 2024}

ReverseKwargs ==
    [year : ReverseInts, month : ReverseInts, day : ReverseInts, slug : Slugs]

Requests ==
    {[kind |-> "GET", segs |-> g, name |-> "", kwargs |-> EmptyKwargs] : g \in SegSeqs}
    \cup {[kind |-> "reverse", segs |-> <<>>, name |-> n, kwargs |-> EmptyKwargs] :
            n \in {"home", "articles-list"}}
    \cup {[kind |-> "reverse", segs |-> <<>>, name |-> "articles-category-list",
           kwargs |-> k] : k \in CategoryKwargs}
    \cup {[kind |-> "reverse", segs |-> <<>>, name |-> "news-detail",
           kwargs |-> k] : k \in ReverseKwargs}

\* view = resolve(path); response = self.client.get(path)
RouteGet ==
    /\ request.kind = "GET"
    /\ last = NoOp
    /\ last' = get(Path(request.segs))
    /\ UNCHANGED <<store, request>>

\* url = reverse(name, kwargs=kwargs)
RouteReverse ==
    /\ request.kind = "reverse"
    /\ last = NoOp
    /\ last' = [NoOp EXCEPT !.op = "reverse",
                            !.path = reverse(request.name, request.kwargs)]
    /\ UNCHANGED <<store, request>>

\* response = self.client.get(url)
RouteGetReversed ==
    /\ last.op = "reverse"
    /\ last.path # NoReverseMatch
    /\ last' = get(last.path)
    /\ UNCHANGED <<store, request>>

(***************************************************************************)
(* Specifications.                                                         *)
(***************************************************************************)
EmptyStore ==
    /\ categories = <<>>
    /\ articles = <<>>
    /\ images = <<>>
    /\ nextCategory = 1
    /\ nextArticle = 1
    /\ nextImage = 1

Init ==
    /\ EmptyStore
    /\ request = NoRequest
    /\ last = NoOp

ListSlug == <<"n", "e", "w", "s">>

ListDate == [year |-> 2024, month |-> 1, day |-> 15, hour |-> 9]

CategoryNext ==
    \/ \E slug \in Slugs : CreateCategory(slug)
    \/ \E pk \in 1..MaxCategoryId, slug \in Slugs : EditCategory(pk, slug)
    \/ \E pk \in 1..MaxCategoryId : DeleteCategoryCascade(pk)
    \/ \E pk \in 1..MaxCategoryId : DeleteCategorySetNull(pk)

\* the listing pages over categories and articles edited through the admin
ListNext ==
    \/ CategoryNext
    \/ \E c \in 0..MaxCategoryId : CreateArticle(ListSlug, ListDate, c)
    \/ \E pk \in 1..MaxArticleId, c \in 0..MaxCategoryId :
          EditArticle(pk, ListSlug, ListDate, c)
    \/ \E pk \in 1..MaxArticleId : DeleteArticle(pk)
    \/ Get("home", EmptyKwargs)
    \/ Get("articles-list", EmptyKwargs)
    \/ \E kwargs \in CategoryKwargs : Get("articles-category-list", kwargs)

SpecList == Init /\ [][ListNext]_vars

\* the detail page over articles edited through the admin
DetailNext ==
    \/ \E slug \in Slugs, d \in Dates : CreateArticle(slug, d, NULL)
    \/ \E pk \in 1..MaxArticleId, slug \in Slugs, d \in Dates :
          EditArticle(pk, slug, d, NULL)
    \/ \E pk \in 1..MaxArticleId : DeleteArticle(pk)
    \/ \E kwargs \in DetailKwargs : Get("news-detail", kwargs)

SpecDetail == Init /\ [][DetailNext]_vars

\* the admin's article, image and category operations
AdminNext ==
    \/ CreateCategory(ListSlug)
    \/ \E pk \in 1..MaxCategoryId : DeleteCategoryCascade(pk)
    \/ \E pk \in 1..MaxCategoryId : DeleteCategorySetNull(pk)
    \/ \E c \in 0..MaxCategoryId : CreateArticle(ListSlug, ListDate, c)
    \/ \E pk \in 1..MaxArticleId : DeleteArticle(pk)
    \/ \E pk \in 1..MaxArticleId : ArticleImageInline(pk)
    \/ \E pk \in 1..MaxImageId : delete_file(pk)

SpecAdmin == Init /\ [][AdminNext]_vars

InitRoute ==
    /\ EmptyStore
    /\ request \in Requests
    /\ last = NoOp

\* the router alone
RouteNext == RouteGet \/ RouteReverse \/ RouteGetReversed

SpecRoute == InitRoute /\ [][RouteNext]_vars

(***************************************************************************)
(* Properties.  The paths a property expects are written out here, apart   *)
(* from the router's own conversions.                                      *)
(***************************************************************************)
DecimalText ==
    (0 :> <<"0">>) @@ (1 :> <<"1">>) @@ (15 :> <<"1", "5">>)
    @@ (2020 :> <<"2", "0", "2", "0">>) @@ (2024 :> <<"2", "0", "2", "4">>)
    @@ ((0 - 1) :> <<"-", "1">>)

ArticlesListPath == <<"/", "a", "r", "t", "i", "c", "l", "e", "s">>

CategoryListPath(slug) ==
    ArticlesListPath \o <<"/", "c", "a", "t", "e", "g", "o", "r", "y", "/">>
    \o slug \o <<"/">>

DetailPath(year, month, day, slug) ==
    ArticlesListPath \o <<"/">> \o DecimalText[year] \o <<"/">> \o DecimalText[month]
    \o <<"/">> \o DecimalText[day] \o <<"/">> \o slug \o <<"/">>

ArticlesInCategorySlug(slug) ==
    {a \in DOMAIN articles :
       \E c \in DOMAIN categories :
          categories[c].slug = slug /\ articles[a].category = c}

\* C1: a GET of /articles/category/<s>/ answers 200 with, as items, exactly
\* the Articles whose category has slug s: all of them, and no Article of
\* another category or of none.
C1_CategoryIsolation ==
    \A slug \in Slugs :
       (last.op = "GET" /\ last.path = CategoryListPath(slug)) =>
          /\ last.status = 200
          /\ last.view = "ArticleCategoryList"
          /\ last.items = ArticlesInCategorySlug(slug)

C1_Witness ==
    /\ last.op = "GET"
    /\ last.view = "ArticleCategoryList"
    /\ last.items # {}
    /\ \E a \in (DOMAIN articles) \ last.items :
          articles[a].category \in DOMAIN categories

\* C3: a GET of /articles/category/<s>/ where no Category has slug s, or the
\* Category with slug s has no Article, answers 200 with no items, not 404.
C3_EmptyCategoryIsSuccess ==
    \A slug \in Slugs :
       ( /\ last.op = "GET"
         /\ last.path = CategoryListPath(slug)
         /\ \/ ~\E c \in DOMAIN categories : categories[c].slug = slug
            \/ \E c \in DOMAIN categories :
                  categories[c].slug = slug /\ ArticlesOf(c) = {} )
       => (last.status = 200 /\ last.items = {})

C3_Witness ==
    /\ last.op = "GET"
    /\ last.view = "ArticleCategoryList"
    /\ last.status = 200
    /\ last.items = {}
    /\ articles # <<>>
    /\ \E slug \in Slugs :
          /\ last.path = CategoryListPath(slug)
          /\ ~\E c \in DOMAIN categories : categories[c].slug = slug

\* C8: a GET of /articles answers 200 with, as items, every Article in the
\* store, of any category or none, and nothing else.
C8_ListAllComplete ==
    (last.op = "GET" /\ last.path = ArticlesListPath) =>
       /\ last.status = 200
       /\ last.view = "ArticleList"
       /\ last.items = DOMAIN articles

C8_Witness ==
    /\ last.op = "GET"
    /\ last.path = ArticlesListPath
    /\ Cardinality(last.items) = 2
    /\ \E a, b \in last.items : articles[a].category # articles[b].category

SameDay(a, year, month, day) ==
    /\ articles[a].pub_date.year = year
    /\ articles[a].pub_date.month = month
    /\ articles[a].pub_date.day = day

\* C2: for every stored Article a, a GET of the detail path of a's publish
\* day and slug answers 200 with item = a; a GET of a detail path whose day
\* and slug no stored Article has answers 404.
C2_DetailLookup ==
    /\ \A a \in DOMAIN articles :
          ( /\ last.op = "GET"
            /\ last.path = DetailPath(articles[a].pub_date.year,
                                      articles[a].pub_date.month,
                                      articles[a].pub_date.day, articles[a].slug) )
          => (last.status = 200 /\ last.item = a)
    /\ \A k \in DetailKwargs :
          ( /\ last.op = "GET"
            /\ last.path = DetailPath(k.year, k.month, k.day, k.slug)
            /\ ~\E a \in DOMAIN articles :
                   articles[a].slug = k.slug /\ SameDay(a, k.year, k.month, k.day) )
          => last.status = 404

\* C7: a news-detail request ends in 200 with one stored Article as item,
\* or in 404, and in nothing else.
C7_DetailTwoOutcomes ==
    (last.op = "GET" /\ last.view = "ArticleDetail") =>
       \/ last.status = 200 /\ last.item \in DOMAIN articles
       \/ last.status = 404

\* C9: delete_file(pk) of an existing ArticleImage removes that image and
\* nothing else: every other ArticleImage, every Article and every Category
\* stay as they were; delete_file(pk) of no ArticleImage fails with 404 and
\* leaves the store as it was.
C9_DeleteFileFrame ==
    [][ last'.op = "delete_file" =>
          IF last'.pk \in DOMAIN images
          THEN /\ last'.status = 200
               /\ images' = Remove(images, last'.pk)
               /\ articles' = articles
               /\ categories' = categories
          ELSE /\ last'.status = 404
               /\ images' = images
               /\ articles' = articles
               /\ categories' = categories ]_vars

C9_Witness ==
    /\ last.op = "delete_file"
    /\ last.status = 200
    /\ last.pk \notin DOMAIN images
    /\ images # <<>>
    /\ articles # <<>>
    /\ categories # <<>>

NoOrphanImages == \A i \in DOMAIN images : images[i].article \in DOMAIN articles

\* C10: every ArticleImage is owned by an Article that exists, after every
\* step; and deleting an Article removes exactly the images it owns.
C10_NoOrphans ==
    [][ /\ NoOrphanImages'
        /\ last'.op = "delete_article" =>
              /\ last'.pk \in DOMAIN articles
              /\ last'.pk \notin DOMAIN articles'
              /\ images' = [i \in {x \in DOMAIN images : images[x].article # last'.pk}
                              |-> images[i]] ]_vars

C10_Witness ==
    /\ last.op = "delete_article"
    /\ nextImage > 2
    /\ Cardinality(DOMAIN images) = 1
    /\ NoOrphanImages

NonNegative(k) == k.year >= 0 /\ k.month >= 0 /\ k.day >= 0

ReversedAsWritten ==
    /\ request.name = "home" => last.path = <<"/">>
    /\ request.name = "articles-list" => last.path = ArticlesListPath
    /\ request.name = "articles-category-list" =>
          last.path = CategoryListPath(request.kwargs.slug)
    /\ request.name = "news-detail" =>
          last.path = DetailPath(request.kwargs.year, request.kwargs.month,
                                 request.kwargs.day, request.kwargs.slug)

\* C4 as stated: reverse gives "/", "/articles", "/articles/category/<x>/"
\* and, for every integer year, month and day, "/articles/<y>/<m>/<d>/<s>/".
C4_ReverseEveryInteger == last.op = "reverse" => ReversedAsWritten

\* C4 as amended: the same, for every year, month and day that is not
\* negative, the integers written without zero padding.
C4_ReverseNonNegative ==
    ( /\ last.op = "reverse"
      /\ request.name = "news-detail" => NonNegative(request.kwargs) )
    => ReversedAsWritten

C4_Witness ==
    /\ last.op = "reverse"
    /\ request.name = "news-detail"
    /\ request.kwargs.year = 2024
    /\ request.kwargs.month = 1
    /\ request.kwargs.day = 15
    /\ last.path = ArticlesListPath
          \o <<"/", "2", "0", "2", "4", "/", "1", "/", "1", "5", "/">>
          \o request.kwargs.slug \o <<"/">>

IntTokens == {<<"1", "5">>, <<"0", "1">>}

IntTokenValue == (<<"1", "5">> :> 15) @@ (<<"0", "1">> :> 1)

SlugTokens == Tokens \ {<<>>}

MatchingRoutes(path) ==
    {i \in 1..Len(urlpatterns) :
       /\ Len(path) > 0
       /\ RouteMatch(urlpatterns[i].route, Tail(path)).ok}

\* C5: a path matches at most one of the four routes, and is not found when
\* it matches none; "/" is home, "/articles" is articles-list,
\* "/articles/category/<slug>/" is articles-category-list with that slug, and
\* "/articles/<y>/<m>/<d>/<slug>/", the numbers zero-padded or not, is
\* news-detail with those numbers and that slug.
C5_RoutingUnambiguous ==
    (request.kind = "GET" /\ last.op = "GET") =>
       LET g == request.segs IN
       /\ Cardinality(MatchingRoutes(last.path)) <= 1
       /\ MatchingRoutes(last.path) = {} => (last.status = 404 /\ last.view = "")
       /\ MatchingRoutes(last.path) # {} => last.view # ""
       /\ g = <<>> => last.view = "HomePageView"
       /\ g = <<txt_articles>> => last.view = "ArticleList"
       /\ ( /\ Len(g) = 4
            /\ g[1] = txt_articles
            /\ g[2] = txt_category
            /\ g[3] \in SlugTokens
            /\ g[4] = <<>> )
          => (last.view = "ArticleCategoryList" /\ last.kwargs = [slug |-> g[3]])
       /\ ( /\ Len(g) = 6
            /\ g[1] = txt_articles
            /\ g[2] \in IntTokens
            /\ g[3] \in IntTokens
            /\ g[4] \in IntTokens
            /\ g[5] \in SlugTokens
            /\ g[6] = <<>> )
          => /\ last.view = "ArticleDetail"
             /\ last.kwargs = [year |-> IntTokenValue[g[2]],
                               month |-> IntTokenValue[g[3]],
                               day |-> IntTokenValue[g[4]], slug |-> g[5]]

C5_Witness ==
    /\ request.kind = "GET"
    /\ last.op = "GET"
    /\ last.view = "ArticleDetail"
    /\ request.segs[3] = <<"0", "1">>
    /\ last.kwargs.month = 1

\* C6: a path /articles/<a>/<b>/<c>/<slug>/ in which a, b or c is not a
\* string of decimal digits (it is empty, has a sign or another non-digit)
\* is not found, and no view is invoked for it.
C6_MalformedDateNotFound ==
    ( /\ request.kind = "GET"
      /\ last.op = "GET"
      /\ Len(request.segs) = 6
      /\ request.segs[1] = txt_articles
      /\ request.segs[6] = <<>>
      /\ \E n \in 2..4 : request.segs[n] \notin IntTokens )
    => (last.status = 404 /\ last.view = "")

C6_Witness ==
    /\ request.kind = "GET"
    /\ last.op = "GET"
    /\ last.status = 404
    /\ Len(request.segs) = 6
    /\ request.segs[1] = txt_articles
    /\ request.segs[2] = <<"1", "5">>
    /\ request.segs[3] = <<"-", "1">>
    /\ request.segs[4] = <<"0", "1">>
    /\ request.segs[5] = txt_category
    /\ request.segs[6] = <<>>
====
